---------------------------- MODULE Spec2Model ----------------------------
(***************************************************************************)
(* Model of the caterpillar update daemon (src/src/dbus.rs, device.rs,     *)
(* rauc.rs): the state handling task ("drain worker") that commits the     *)
(* states posted to a bounded channel, the two D-Bus methods               *)
(* SearchForUpdate and InstallUpdate, and the background tasks they spawn. *)
(*                                                                         *)
(* Granularity.  Every .await at which another task can change what the    *)
(* awaiting task later reads is a step boundary: a channel send (it waits  *)
(* while the channel is full), the acquisition of the devices or updates   *)
(* lock, the external install, the reply of a D-Bus call.  The drain       *)
(* worker's commit and its in-place rewrite of Idle are two writes under   *)
(* two separate write guards (dbus.rs:241-245 and 305-309), so they are    *)
(* two steps.                                                              *)
(*                                                                         *)
(* Environment.  Calls to the external services (udisks, RAUC, logind)     *)
(* return a value or an error, chosen nondeterministically.  Opening the   *)
(* bus connection and building a proxy are taken to succeed: init() has    *)
(* tested them before the state task is spawned (dbus.rs:229-230).         *)
(*                                                                         *)
(* Locks.  async_std's RwLock is write-preferring.  A task that waits for  *)
(* a write guard is modelled as not having asked yet, so a reader is only  *)
(* held back by a writer that owns the lock.                               *)
(***************************************************************************)
EXTENDS Integers, Sequences, FiniteSets, TLC

\* channel(2), dbus.rs:216
ChannelCapacity == 2

\* Number of D-Bus method handlers and spawned tasks alive at the same time.
MaxProcs == 2

\* Number of method calls of clients that the daemon accepts in one run.
MaxCalls == 3

Procs == 1..MaxProcs

\* Lock holders: 0 is nobody, a number of Procs a task, DrainId the drain worker
DrainId == MaxProcs + 1

-----------------------------------------------------------------------------
(* enum State, dbus.rs:39-66 *)

TwoFieldTags ==
    {"done", "idle", "mounted", "mounting", "noupdatefound", "searching",
     "skip", "updatefound", "updating"}

ThreeFieldTags == {"unmounted", "unmounting", "updated"}

StInit == [tag |-> "init"]

St2(tag, updated, iteration) ==
    [tag |-> tag, updated |-> updated, iteration |-> iteration]

St3(tag, updated, iteration, reboot) ==
    [tag |-> tag, updated |-> updated, iteration |-> iteration, reboot |-> reboot]

get_updated(s) ==
    CASE s.tag = "init" -> FALSE
      [] s.tag \in TwoFieldTags \cup ThreeFieldTags -> s.updated

get_iteration(s) ==
    CASE s.tag = "init" -> 0
      [] s.tag \in TwoFieldTags \cup ThreeFieldTags -> s.iteration

\* A reading that leaves the Updated arm out
get_marked_for_reboot_unmount_only(s) ==
    CASE s.tag \in {"init", "done", "updatefound", "idle", "mounting", "mounted",
                    "noupdatefound", "searching", "updating", "skip",
                    "updated"} -> FALSE
      [] s.tag \in {"unmounting", "unmounted"} -> s.reboot

get_marked_for_reboot(s) ==
    CASE s.tag \in {"init", "done", "updatefound", "idle", "mounting", "mounted",
                    "noupdatefound", "searching", "updating", "skip"} -> FALSE
      [] s.tag \in {"unmounting", "unmounted", "updated"} -> s.reboot

\* strum::Display: the tag name
StateName(s) == s.tag

-----------------------------------------------------------------------------
(* Bundles on the media and what the installer reports about them *)

SystemCompatible == "system"

\* RaucInfo.version when the primary slot reports no bundle version
NoVersion == <<>>

\* RaucInfo.version of the running system
SystemVersion == <<1, 0, 0>>

\* InstallerProxy::info for the bundle files of the model's media: the pair
\* (compatible, version string), or an error.  A version string is modelled
\* as the sequence of its dot-separated numbers.
InstallerInfo(path) ==
    CASE path = "update.raucb"   -> [ok |-> TRUE, compatible |-> "system", version |-> <<1, 0, 0>>]
      [] path = "update2.raucb"  -> [ok |-> TRUE, compatible |-> "system", version |-> <<2, 0, 0>>]
      [] path = "update2-copy.raucb"
                                 -> [ok |-> TRUE, compatible |-> "system", version |-> <<2, 0, 0>>]
      [] path = "override/other.raucb"
                                 -> [ok |-> TRUE, compatible |-> "system", version |-> <<0, 5, 0>>]
      [] path = "override/second.raucb"
                                 -> [ok |-> TRUE, compatible |-> "system", version |-> <<3, 0, 0>>]
      [] path = "foreign.raucb"  -> [ok |-> TRUE, compatible |-> "other-system", version |-> <<9, 0, 0>>]
      [] path = "override/foreign.raucb"
                                 -> [ok |-> TRUE, compatible |-> "other-system", version |-> <<9, 0, 0>>]
      [] path = "short.raucb"    -> [ok |-> TRUE, compatible |-> "system", version |-> <<4, 0>>]
      [] path = "override/short.raucb"
                                 -> [ok |-> TRUE, compatible |-> "system", version |-> <<4, 0>>]
      [] OTHER                   -> [ok |-> FALSE, compatible |-> "", version |-> <<>>]

\* semver::Version::parse: exactly MAJOR.MINOR.PATCH
VersionParses(v) == Len(v) = 3

\* Ord for semver::Version (no pre-release or build parts in the model)
VersionLess(a, b) ==
    \/ a[1] < b[1]
    \/ a[1] = b[1] /\ a[2] < b[2]
    \/ a[1] = b[1] /\ a[2] = b[2] /\ a[3] < b[3]

\* The order of str on the compatible strings of the model
StrLess(a, b) ==
    \/ a = "other-system" /\ b = "system"

\* UpdateBundle::new, rauc.rs:32-60
UpdateBundleNew(path, is_override) ==
    LET info == InstallerInfo(path)
    IN  IF ~info.ok THEN [ok |-> FALSE, err |-> "BundleInfo"]
        ELSE IF ~VersionParses(info.version) THEN [ok |-> FALSE, err |-> "BundleVersion"]
        ELSE [ok |-> TRUE,
              bundle |-> [path |-> path, compatible |-> info.compatible,
                          version |-> info.version, is_override |-> is_override]]

\* impl Ord for UpdateBundle, rauc.rs:123-131
BundleLess(a, b) ==
    IF a.compatible = b.compatible THEN VersionLess(a.version, b.version)
    ELSE StrLess(a.compatible, b.compatible)

-----------------------------------------------------------------------------
(* Devices, device.rs *)

\* What udisks reports for one block device matching device_regex, whether
\* its Mount call succeeds, and the bundle files on it
EnvDevice(objectpath, usage, number, ptype_ok, mountpoints, mount_ok, top, over) ==
    [objectpath |-> objectpath, usage |-> usage, number |-> number,
     ptype_ok |-> ptype_ok, mountpoints |-> mountpoints, mount_ok |-> mount_ok,
     top |-> top, over |-> over]

\* The media a search can meet: each is the list of block devices
Media ==
    { \* no-bundle
      << EnvDevice("sda1", "filesystem", 1, TRUE, <<>>, TRUE, <<>>, <<>>) >>,
      \* two-compatible, the first not newer than the system
      << EnvDevice("sda1", "filesystem", 1, TRUE, <<>>, TRUE,
                   <<"update.raucb", "update2.raucb">>, <<>>) >>,
      \* override-wins, on a device that something else has mounted already
      \* and a second one that the daemon mounts itself
      << EnvDevice("sda1", "filesystem", 1, TRUE, <<"/mnt/sda1">>, TRUE,
                   <<"update2.raucb">>, <<"override/other.raucb">>),
         EnvDevice("sdb1", "filesystem", 1, TRUE, <<>>, TRUE, <<>>, <<>>) >>,
      \* too-many-overrides, and a second device whose Mount fails
      << EnvDevice("sda1", "filesystem", 1, TRUE, <<>>, TRUE, <<>>,
                   <<"override/other.raucb", "override/second.raucb">>),
         EnvDevice("sdb1", "filesystem", 1, TRUE, <<>>, FALSE,
                   <<"update2.raucb">>, <<>>) >> }

\* Device::new, device.rs:114-128
DeviceNew(objectpath) ==
    [objectpath |-> objectpath, mountpoint |-> "", unmountable |-> "unset",
     bundles |-> <<>>, override_bundles |-> <<>>]

\* Device::is_mounted, device.rs:131-133
is_mounted(d) == d.mountpoint # ""

\* Device::mount_filesystem, device.rs:175-204: udisks' Mount is called for a
\* filesystem partition of a known type that has no mountpoint
AsksMount(e) ==
    /\ e.usage = "filesystem" /\ e.number # 0 /\ e.ptype_ok
    /\ e.mountpoints = <<>>

\* The object paths mount_and_search_devices calls Mount for
MountRequests(media) ==
    LET asked == SelectSeq(media, AsksMount)
    IN  [k \in 1..Len(asked) |-> asked[k].objectpath]

\* Device::mount_filesystem, device.rs:165-231, followed for a mounted device
\* by find_bundles and find_override_bundles as mount_and_search_devices
\* calls them (dbus.rs:662-680)
MountAndSearchDevice(e) ==
    LET d == DeviceNew(e.objectpath)
    IN  IF e.usage # "filesystem" THEN d
        ELSE IF e.number = 0 THEN d
        ELSE IF ~e.ptype_ok THEN d
        ELSE IF e.mountpoints = <<>>
             THEN IF e.mount_ok
                  THEN [d EXCEPT !.mountpoint = "/run/media/" \o e.objectpath,
                                 !.unmountable = "yes",
                                 !.bundles = e.top, !.override_bundles = e.over]
                  ELSE d
             ELSE [d EXCEPT !.mountpoint = e.mountpoints[1],
                            !.unmountable = "no",
                            !.bundles = e.top, !.override_bundles = e.over]

\* mount_and_search_devices, dbus.rs:653-682
mount_and_search_devices(media) ==
    [k \in 1..Len(media) |-> MountAndSearchDevice(media[k])]

RECURSIVE Flatten(_)

\* A collection that looks at the first device only
FlattenFirstOnly(ss) == IF ss = <<>> THEN <<>> ELSE Head(ss)

Flatten(ss) == IF ss = <<>> THEN <<>> ELSE Head(ss) \o Flatten(Tail(ss))

RECURSIVE MaxBundle(_)

\* A choice that takes the first candidate without sorting
FirstBundle(bs) == bs[1]

\* bundles.sort(); bundles.reverse(); bundles[0]: a greatest element; among
\* equal ones the stable sort followed by the reversal yields the last.
MaxBundle(bs) ==
    IF Len(bs) = 1 THEN bs[1]
    ELSE LET m == MaxBundle(Tail(bs))
         IN  IF BundleLess(m, Head(bs)) THEN Head(bs) ELSE m

\* The filter of dbus.rs:728-749
Acceptable(path, version) ==
    LET r == UpdateBundleNew(path, FALSE)
    IN  /\ r.ok
        /\ r.bundle.compatible = SystemCompatible
        /\ \/ version = NoVersion
           \/ VersionLess(version, r.bundle.version)

\* A selector that puts the override through the version filter as well
get_update_bundle_override_filtered(version, devs) ==
    LET overrides == Flatten([k \in 1..Len(devs) |-> devs[k].override_bundles])
        paths     == Flatten([k \in 1..Len(devs) |-> devs[k].bundles])
        ov        == UpdateBundleNew(overrides[1], TRUE)
        good      == SelectSeq(paths, LAMBDA p : Acceptable(p, version))
        bundles   == [k \in 1..Len(good) |-> UpdateBundleNew(good[k], FALSE).bundle]
    IN  IF Len(overrides) > 1 THEN [kind |-> "err"]
        ELSE IF /\ Len(overrides) = 1 /\ ov.ok
                /\ ov.bundle.compatible = SystemCompatible
                /\ (version = NoVersion \/ VersionLess(version, ov.bundle.version))
             THEN [kind |-> "some", bundle |-> ov.bundle]
        ELSE IF bundles = <<>> THEN [kind |-> "none"]
        ELSE [kind |-> "some", bundle |-> MaxBundle(bundles)]

\* A selector that returns no update when the single override is passed over
get_update_bundle_override_ends(version, devs) ==
    LET overrides == Flatten([k \in 1..Len(devs) |-> devs[k].override_bundles])
        paths     == Flatten([k \in 1..Len(devs) |-> devs[k].bundles])
        ov        == UpdateBundleNew(overrides[1], TRUE)
        good      == SelectSeq(paths, LAMBDA p : Acceptable(p, version))
        bundles   == [k \in 1..Len(good) |-> UpdateBundleNew(good[k], FALSE).bundle]
    IN  IF Len(overrides) > 1 THEN [kind |-> "err"]
        ELSE IF Len(overrides) = 1
             THEN IF ov.ok /\ ov.bundle.compatible = SystemCompatible
                  THEN [kind |-> "some", bundle |-> ov.bundle]
                  ELSE [kind |-> "none"]
        ELSE IF bundles = <<>> THEN [kind |-> "none"]
        ELSE [kind |-> "some", bundle |-> MaxBundle(bundles)]

\* get_update_bundle, dbus.rs:685-764: [kind |-> "err"], [kind |-> "none"] or
\* [kind |-> "some", bundle |-> b]
get_update_bundle(version, devs) ==
    LET overrides == Flatten([k \in 1..Len(devs) |-> devs[k].override_bundles])
        paths     == Flatten([k \in 1..Len(devs) |-> devs[k].bundles])
        ov        == UpdateBundleNew(overrides[1], TRUE)
        good      == SelectSeq(paths, LAMBDA p : Acceptable(p, version))
        bundles   == [k \in 1..Len(good) |-> UpdateBundleNew(good[k], FALSE).bundle]
    IN  IF Len(overrides) > 1 THEN [kind |-> "err"]
        ELSE IF Len(overrides) = 1 /\ ov.ok /\ ov.bundle.compatible = SystemCompatible
             THEN [kind |-> "some", bundle |-> ov.bundle]
        ELSE IF bundles = <<>> THEN [kind |-> "none"]
        ELSE [kind |-> "some", bundle |-> MaxBundle(bundles)]


-----------------------------------------------------------------------------
(* The program's state *)

VARIABLES
    autorun,      \* config "autorun", read once in init (dbus.rs:226)
    state,        \* StateHandle.state
    inbox,        \* the channel of states, oldest first
    drain,        \* the state task spawned by init: [pc, msg, next]
    procs,        \* method handlers and the tasks they spawn, by slot
    devices,      \* Caterpillar.devices
    updates,      \* Caterpillar.updates
    devLock,      \* holder of the write guard of devices
    updLock,      \* holder of the write guard of updates
    out,          \* what the last step sent out: a method reply, the
                  \* UpdateFound signal, the call of logind's Reboot, or nothing
    calls         \* the method calls of clients accepted so far, in order

vars == <<autorun, state, inbox, drain, procs, devices, updates,
          devLock, updLock, out, calls>>

NoBundle == [path |-> "", compatible |-> "", version |-> <<>>, is_override |-> FALSE]

NoProc ==
    [kind |-> "none", pc |-> "", updated |-> FALSE, iteration |-> 0,
     reboot |-> FALSE, caller |-> "", bundle |-> NoBundle]

Nothing == [kind |-> "nothing"]

Reply(method, result, text) ==
    [kind |-> "reply", method |-> method, result |-> result, text |-> text]

Signal(update) == [kind |-> "signal", update |-> update]

\* The calls of udisks' Mount and Unmount made in a step, as object paths
Mounts(paths) == [kind |-> "mount", paths |-> paths]
Unmounts(paths) == [kind |-> "unmount", paths |-> paths]

\* An error printed by a task that ends on it
Logged(text) == [kind |-> "log", text |-> text]

RebootCall == [kind |-> "reboot", interactive |-> FALSE]
Renamed(path) == [kind |-> "rename", from |-> path, to |-> path \o ".installed"]

Drain(pc, msg, next) == [pc |-> pc, msg |-> msg, next |-> next]

DrainAt(pc) == Drain(pc, StInit, "")

\* The state task has returned (Done, or an error propagated by `?`) or
\* panicked: the Receiver is dropped and every later send fails.
DrainGone == drain.pc \in {"exited", "failed"}

Init ==
    /\ autorun \in BOOLEAN
    /\ state = StInit
    /\ inbox = <<>>
    /\ drain = DrainAt("start")
    /\ procs = [p \in Procs |-> NoProc]
    /\ devices = <<>>
    /\ updates = <<>>
    /\ devLock = 0
    /\ updLock = 0
    /\ out = Nothing
    /\ calls = <<>>

\* An accepted call of SearchForUpdate, and one of InstallUpdate with its
\* arguments
SearchCall == [method |-> "SearchForUpdate", update |-> FALSE, reboot |-> FALSE]
InstallCall(update, reboot) ==
    [method |-> "InstallUpdate", update |-> update, reboot |-> reboot]

FreeSlots == {p \in Procs : procs[p].kind = "none"}

\* One slot is kept for the daemon's own InstallUpdate call when autorun is set
ClientMayCall ==
    /\ Len(calls) < MaxCalls
    /\ Cardinality(FreeSlots) > (IF autorun THEN 1 ELSE 0)

NewSlot == CHOOSE p \in FreeSlots : \A q \in FreeSlots : p <= q

\* Worker tasks in flight: spawned by search_for_update (dbus.rs:418) or by
\* install_update (dbus.rs:497) and not yet returned
WorkerTasks ==
    {p \in Procs : \/ procs[p].kind = "search"
                   \/ procs[p].kind = "install" /\ procs[p].pc # "get_update"}

-----------------------------------------------------------------------------
(* The D-Bus methods, dbus.rs:392-576 *)

\* A guard that looks at the tag alone
SearchAcceptsAnyIdle(s) == s.tag = "idle"

\* The match guard of search_for_update, dbus.rs:396
SearchAccepts(s) == s.tag = "idle" /\ ~s.updated

\* A match whose second arm takes Idle as well
InstallDecisionSkipInIdle(s, update) ==
    IF s.tag = "updatefound" /\ ~s.updated /\ update THEN "install"
    ELSE IF s.tag \in {"noupdatefound", "updatefound", "idle"} /\ ~update THEN "skip"
    ELSE "wrong"

\* The match of install_update, dbus.rs:489-559
InstallDecision(s, update) ==
    IF s.tag = "updatefound" /\ ~s.updated /\ update THEN "install"
    ELSE IF s.tag \in {"noupdatefound", "updatefound"} /\ ~update THEN "skip"
    ELSE "wrong"

\* dbus.rs:560-572
WrongStateText(s) ==
    "Caterpillar is in wrong state: " \o
        (IF get_updated(s) THEN "System is updated already, waiting for reboot"
         ELSE StateName(s))

\* The task search_for_update spawns, with the payload of the state it read
SearchTask(s) ==
    [NoProc EXCEPT !.kind = "search", !.pc = "mounting", !.updated = s.updated,
                   !.iteration = s.iteration, !.caller = "client"]

search_for_update ==
    /\ \/ /\ SearchAccepts(state)
          /\ ClientMayCall
          /\ procs' = [procs EXCEPT ![NewSlot] = SearchTask(state)]
          /\ out' = Reply("SearchForUpdate", "Ok", "")
          /\ calls' = Append(calls, SearchCall)
       \/ /\ ~SearchAccepts(state)
          /\ procs' = procs
          /\ out' = Reply("SearchForUpdate", "AccessDenied",
                       "Already in state " \o StateName(state))
          /\ calls' = calls
    /\ UNCHANGED <<autorun, state, inbox, drain, devices, updates, devLock,
                   updLock>>

\* The handler of install_update up to its first await that can wait: the
\* read of updates in get_update (install) or the send of Skip; the reply to
\* an accepted call comes later
InstallUpdateCalled(caller, update, reboot) ==
    LET decision == InstallDecision(state, update)
    IN  \/ /\ decision = "install"
           /\ procs' = [procs EXCEPT ![NewSlot] =
                          [NoProc EXCEPT !.kind = "install", !.pc = "get_update",
                                         !.updated = state.updated,
                                         !.iteration = state.iteration,
                                         !.reboot = reboot, !.caller = caller]]
           /\ out' = Nothing
        \/ /\ decision = "skip"
           /\ procs' = [procs EXCEPT ![NewSlot] =
                          [NoProc EXCEPT !.kind = "skip", !.pc = "skip",
                                         !.updated = state.updated,
                                         !.iteration = state.iteration,
                                         !.caller = caller]]
           /\ out' = Nothing
        \/ /\ decision = "wrong"
           /\ procs' = procs
           /\ out' = Reply("InstallUpdate", "Failed", WrongStateText(state))

install_update(update, reboot) ==
    /\ InstallDecision(state, update) # "wrong" => ClientMayCall
    /\ InstallUpdateCalled("client", update, reboot)
    /\ calls' = IF InstallDecision(state, update) = "wrong" THEN calls
                ELSE Append(calls, InstallCall(update, reboot))
    /\ UNCHANGED <<autorun, state, inbox, drain, devices, updates, devLock,
                   updLock>>

-----------------------------------------------------------------------------
(* Sending on the channel, and the end of a task *)

\* Sender::send completes once the channel has room
CanSend == Len(inbox) < ChannelCapacity

\* The guards a returning task drops
Released(lock, p) == IF lock = p THEN 0 ELSE lock

\* A handler or task returns: its slot is free and its guards are dropped
EndProc(p) ==
    /\ procs' = [procs EXCEPT ![p] = NoProc]
    /\ devLock' = Released(devLock, p)
    /\ updLock' = Released(updLock, p)

\* A task sends msg and goes on at pc; with the Receiver dropped the send
\* fails and `?` ends the task
ProcSend(p, msg, pc) ==
    \/ /\ ~DrainGone
       /\ CanSend
       /\ inbox' = Append(inbox, msg)
       /\ procs' = [procs EXCEPT ![p].pc = pc]
       /\ UNCHANGED <<devLock, updLock>>
    \/ /\ DrainGone
       /\ inbox' = inbox
       /\ EndProc(p)

\* A task sends msg as the last thing it does
ProcSendLast(p, msg) ==
    \/ /\ ~DrainGone
       /\ CanSend
       /\ inbox' = Append(inbox, msg)
       /\ EndProc(p)
    \/ /\ DrainGone
       /\ inbox' = inbox
       /\ EndProc(p)

-----------------------------------------------------------------------------
(* The task spawned by search_for_update, dbus.rs:418-474 *)

\* dbus.rs:419-422
SearchSendMounting(p) ==
    /\ procs[p].kind = "search" /\ procs[p].pc = "mounting"
    /\ ProcSend(p, St2("mounting", procs[p].updated, procs[p].iteration), "lockdev")
    /\ out' = Nothing
    /\ UNCHANGED <<autorun, state, drain, devices, updates, calls>>

\* dbus.rs:423-432: the write guard of devices, then mount_and_search_devices;
\* an error of GetBlockDevices ends the task
SearchMount(p) ==
    /\ procs[p].kind = "search" /\ procs[p].pc = "lockdev"
    /\ devLock = 0
    /\ \/ /\ \E media \in Media :
                /\ devices' = mount_and_search_devices(media)
                /\ out' = Mounts(MountRequests(media))
          /\ devLock' = p
          /\ procs' = [procs EXCEPT ![p].pc = "mounted"]
          /\ updLock' = updLock
       \/ /\ devices' = devices
          /\ out' = Nothing
          /\ EndProc(p)
    /\ UNCHANGED <<autorun, state, inbox, drain, updates, calls>>

\* dbus.rs:434-437
SearchSendMounted(p) ==
    /\ procs[p].kind = "search" /\ procs[p].pc = "mounted"
    /\ ProcSend(p, St2("mounted", procs[p].updated, procs[p].iteration), "lockupd")
    /\ out' = Nothing
    /\ UNCHANGED <<autorun, state, drain, devices, updates, calls>>

\* The drain worker holds a read guard of updates from its UpdateFound arm
\* until the arm ends (dbus.rs:260-297)
UpdatesRead == drain.pc \in {"autorun", "call"}

\* dbus.rs:439-442: the write guard of updates, then RaucInfo::new, whose
\* error ends the task
SearchLockUpdates(p) ==
    /\ procs[p].kind = "search" /\ procs[p].pc = "lockupd"
    /\ updLock = 0 /\ ~UpdatesRead
    /\ \/ /\ updLock' = p
          /\ procs' = [procs EXCEPT ![p].pc = "searching"]
          /\ devLock' = devLock
       \/ EndProc(p)
    /\ out' = Nothing
    /\ UNCHANGED <<autorun, state, inbox, drain, devices, updates, calls>>

\* dbus.rs:443-446
SearchSendSearching(p) ==
    /\ procs[p].kind = "search" /\ procs[p].pc = "searching"
    /\ ProcSend(p, St2("searching", procs[p].updated, procs[p].iteration), "select")
    /\ out' = Nothing
    /\ UNCHANGED <<autorun, state, drain, devices, updates, calls>>

\* dbus.rs:448-473: get_update_bundle and the send of its outcome; an error
\* (TooManyOverrides) ends the task by `?` with nothing sent
SearchSelect(p) ==
    /\ procs[p].kind = "search" /\ procs[p].pc = "select"
    /\ LET found == get_update_bundle(SystemVersion, devices)
       IN  \/ /\ found.kind = "err"
              /\ EndProc(p)
              /\ UNCHANGED <<inbox, updates>>
           \/ /\ found.kind = "some"
              /\ updates' = Append(updates, found.bundle)
              /\ ProcSendLast(p, St2("updatefound", procs[p].updated, procs[p].iteration))
           \/ /\ found.kind = "none"
              /\ updates' = updates
              /\ ProcSendLast(p, St2("noupdatefound", procs[p].updated, procs[p].iteration))
    /\ out' = Nothing
    /\ UNCHANGED <<autorun, state, drain, devices, calls>>

-----------------------------------------------------------------------------
(* install_update after its match, and the task it spawns, dbus.rs:491-558 *)

\* Caterpillar::get_update, dbus.rs:377-384: the last element of updates
get_update(us) == IF us = <<>> THEN NoBundle ELSE us[Len(us)]

\* What the drain worker does with the reply to its own InstallUpdate call
\* (dbus.rs:281-296): an error reply ends it by `?`
DrainAfterReply(p, ok) ==
    IF procs[p].caller = "drain"
    THEN DrainAt(IF ok THEN "recv" ELSE "failed")
    ELSE drain

\* dbus.rs:496-544: with a bundle the task is spawned and the call replies
\* Ok; without one it replies Failed(NoUpdateBundle)
InstallGetUpdate(p) ==
    /\ procs[p].kind = "install" /\ procs[p].pc = "get_update"
    /\ updLock = 0
    /\ IF updates = <<>>
       THEN /\ out' = Reply("InstallUpdate", "Failed", "NoUpdateBundle")
            /\ drain' = DrainAfterReply(p, FALSE)
            /\ EndProc(p)
       ELSE /\ out' = Reply("InstallUpdate", "Ok", "")
            /\ drain' = DrainAfterReply(p, TRUE)
            /\ procs' = [procs EXCEPT ![p].pc = "updating",
                                      ![p].bundle = get_update(updates)]
            /\ UNCHANGED <<devLock, updLock>>
    /\ UNCHANGED <<autorun, state, inbox, devices, updates, calls>>

\* dbus.rs:503-506
InstallSendUpdating(p) ==
    /\ procs[p].kind = "install" /\ procs[p].pc = "updating"
    /\ ProcSend(p, St2("updating", procs[p].updated, procs[p].iteration), "install")
    /\ out' = Nothing
    /\ UNCHANGED <<autorun, state, drain, devices, updates, calls>>

\* rauc.rs:91-97: Error::UpdateFailed with the installer's LastError
UpdateFailedText == "Update failed: rauc last error"

\* The io::Error of a failed rename, dbus.rs:516-525
RenameFailedText == "rename failed"

\* A task that renames whatever it has installed
RenameAlways(bundle) == Renamed(bundle.path)

\* dbus.rs:514-526: an installed override bundle is renamed
RenameAfterInstall(bundle) ==
    IF bundle.is_override THEN Renamed(bundle.path) ELSE Nothing

\* A handler has replied Ok once its task is spawned (dbus.rs:497, 575)
RepliedOk(p) ==
    procs[p].kind = "install" /\ procs[p].pc \in {"updating", "install", "updated"}

\* An install task that goes on to send Updated after a failure
InstallRunOnAfterFailure(p) ==
    /\ procs[p].kind = "install" /\ procs[p].pc = "install"
    /\ \/ /\ procs' = [procs EXCEPT ![p].pc = "updated"]
          /\ out' = RenameAfterInstall(procs[p].bundle)
          /\ UNCHANGED <<devLock, updLock>>
       \/ /\ out' = Logged(UpdateFailedText)
          /\ procs' = [procs EXCEPT ![p].pc = "updated"]
          /\ UNCHANGED <<devLock, updLock>>
       \/ /\ procs[p].bundle.is_override
          /\ out' = Logged(RenameFailedText)
          /\ EndProc(p)
    /\ UNCHANGED <<autorun, state, inbox, drain, devices, updates, calls>>

\* dbus.rs:508-536: UpdateBundle::install, then the rename of an override
\* bundle; a failure of either is printed and ends the task
InstallRun(p) ==
    /\ procs[p].kind = "install" /\ procs[p].pc = "install"
    /\ \/ /\ procs' = [procs EXCEPT ![p].pc = "updated"]
          /\ out' = RenameAfterInstall(procs[p].bundle)
          /\ UNCHANGED <<devLock, updLock>>
       \/ /\ out' = Logged(UpdateFailedText)
          /\ EndProc(p)
       \/ /\ procs[p].bundle.is_override
          /\ out' = Logged(RenameFailedText)
          /\ EndProc(p)
    /\ UNCHANGED <<autorun, state, inbox, drain, devices, updates, calls>>

\* dbus.rs:527-530
InstallSendUpdated(p) ==
    /\ procs[p].kind = "install" /\ procs[p].pc = "updated"
    /\ ProcSendLast(p, St3("updated", procs[p].updated, procs[p].iteration,
                           procs[p].reboot))
    /\ out' = Nothing
    /\ UNCHANGED <<autorun, state, drain, devices, updates, calls>>

\* dbus.rs:549-557 and 575: the handler sends Skip, then replies Ok
SkipSend(p) ==
    /\ procs[p].kind = "skip" /\ procs[p].pc = "skip"
    /\ ProcSendLast(p, St2("skip", procs[p].updated, procs[p].iteration))
    /\ out' = IF DrainGone THEN Reply("InstallUpdate", "Failed", "channel closed")
              ELSE Reply("InstallUpdate", "Ok", "")
    /\ UNCHANGED <<autorun, state, drain, devices, updates, calls>>

-----------------------------------------------------------------------------
(* The state task spawned by init, dbus.rs:234-362 *)

\* dbus.rs:236
DrainStart ==
    /\ drain.pc = "start"
    /\ inbox' = Append(inbox, St2("idle", FALSE, 0))
    /\ drain' = DrainAt("recv")
    /\ out' = Nothing
    /\ UNCHANGED <<autorun, state, procs, devices, updates, devLock, updLock,
                   calls>>

\* A receiver that hands out the newest message
InboxTakeNewest(q) == q[Len(q)]

\* receiver.try_recv(), dbus.rs:238: the oldest message
InboxTake(q) == Head(q)

\* A condition that does not look at autorun
RebootWantedFirstIteration(updated, iteration, reboot) ==
    updated /\ (iteration = 1 \/ reboot)

\* A condition that does not look at the updated flag
RebootWantedWithoutUpdate(updated, iteration, reboot) ==
    (iteration = 1 /\ autorun) \/ reboot

\* dbus.rs:330
RebootWanted(updated, iteration, reboot) ==
    updated /\ ((iteration = 1 /\ autorun) \/ reboot)

\* An Updated arm that hands the updated flag on as it is
SuccessorKeepsUpdated(s) ==
    CASE s.tag \in {"noupdatefound", "skip"}
           -> St3("unmounting", s.updated, s.iteration, FALSE)
      [] s.tag = "unmounting"
           -> St3("unmounted", s.updated, s.iteration, s.reboot)
      [] s.tag = "unmounted"
           -> St2("idle", s.updated, s.iteration)
      [] s.tag = "updated"
           -> St3("unmounting", s.updated, s.iteration, s.reboot)

\* The successor the arm of a committed state sends, dbus.rs:299-356
Successor(s) ==
    CASE s.tag \in {"noupdatefound", "skip"}
           -> St3("unmounting", s.updated, s.iteration, FALSE)
      [] s.tag = "unmounting"
           -> St3("unmounted", s.updated, s.iteration, s.reboot)
      [] s.tag = "unmounted"
           -> St2("idle", s.updated, s.iteration)
      [] s.tag = "updated"
           -> St3("unmounting", TRUE, s.iteration, s.reboot)

\* Where the state task stands after committing s and entering its arm
\* (dbus.rs:249-357); reboot_ok is the answer of logind's Reboot
DrainArm(s, reboot_ok) ==
    CASE s.tag \in {"init", "mounting", "mounted", "searching", "updating"}
           -> DrainAt("recv")
      [] s.tag = "done"
           -> DrainAt("exited")
      [] s.tag = "updatefound"
           -> DrainAt("updatefound")
      [] s.tag \in {"noupdatefound", "skip", "updated"}
           -> Drain("send", Successor(s), "recv")
      [] s.tag = "idle"
           -> DrainAt("incr")
      [] s.tag = "unmounting"
           -> DrainAt("unmount")
      [] s.tag = "unmounted"
           -> IF RebootWanted(s.updated, s.iteration, s.reboot)
              THEN DrainAt(IF reboot_ok THEN "clear_devices" ELSE "failed")
              ELSE Drain("send", Successor(s), "clear_devices")

\* What committing s sends out at once: the Unmounted arm's call of Reboot
DrainOut(s) ==
    IF s.tag = "unmounted" /\ RebootWanted(s.updated, s.iteration, s.reboot)
    THEN RebootCall ELSE Nothing

\* dbus.rs:238-249 and the synchronous start of the arm: the message is
\* committed, and in the Unmounted arm logind's Reboot is called
DrainRecv ==
    /\ drain.pc = "recv"
    /\ inbox # <<>>
    /\ state' = InboxTake(inbox)
    /\ inbox' = Tail(inbox)
    /\ out' = DrainOut(state')
    /\ \E reboot_ok \in BOOLEAN :
          /\ drain' = DrainArm(state', reboot_ok)
          /\ reboot_ok \/ drain'.pc = "failed"
    /\ UNCHANGED <<autorun, procs, devices, updates, devLock, updLock, calls>>

\* dbus.rs:304-310: the iteration is incremented in place
DrainIncr ==
    /\ drain.pc = "incr"
    /\ state' = St2("idle", state.updated, state.iteration + 1)
    /\ drain' = DrainAt("recv")
    /\ out' = Nothing
    /\ UNCHANGED <<autorun, inbox, procs, devices, updates, devLock, updLock,
                   calls>>

\* The sends of the arms (dbus.rs:300, 312, 324, 338, 353); the guard of
\* devices taken in the Unmounting arm is dropped when the arm ends
DrainSend ==
    /\ drain.pc = "send"
    /\ CanSend
    /\ inbox' = Append(inbox, drain.msg)
    /\ drain' = DrainAt(drain.next)
    /\ devLock' = Released(devLock, DrainId)
    /\ out' = Nothing
    /\ UNCHANGED <<autorun, state, procs, devices, updates, updLock, calls>>

\* Device::unmount_filesystem, device.rs:234-269, with udisks' Unmount
\* succeeding
unmount_filesystem(d) ==
    IF d.unmountable = "no" THEN d ELSE [d EXCEPT !.mountpoint = ""]

\* A device that asks for whatever is mounted
AsksUnmountAnyMounted(d) == is_mounted(d)

\* The device asks udisks to unmount
AsksUnmount(d) == is_mounted(d) /\ d.unmountable # "no"

\* The object paths the loop of dbus.rs:319-323 calls Unmount for when it ends
\* at device fail_at (0: at the end of the list)
UnmountRequests(devs, fail_at) ==
    LET last  == IF fail_at = 0 THEN Len(devs) ELSE fail_at
        asked == SelectSeq(SubSeq(devs, 1, last), AsksUnmount)
    IN  [k \in 1..Len(asked) |-> asked[k].objectpath]

\* dbus.rs:316-327: the loop over the devices under their write guard; udisks
\* fails at device fail_at (0: nowhere), and that error ends the state task
DrainUnmount ==
    /\ drain.pc = "unmount"
    /\ devLock = 0
    /\ \E fail_at \in 0..Len(devices) :
          /\ fail_at # 0 => AsksUnmount(devices[fail_at])
          /\ devices' = [k \in 1..Len(devices) |->
                           IF is_mounted(devices[k]) /\ (fail_at = 0 \/ k < fail_at)
                           THEN unmount_filesystem(devices[k]) ELSE devices[k]]
          /\ out' = Unmounts(UnmountRequests(devices, fail_at))
          /\ IF fail_at = 0
             THEN /\ drain' = Drain("send", Successor(state), "recv")
                  /\ devLock' = DrainId
             ELSE /\ drain' = DrainAt("failed")
                  /\ devLock' = devLock
    /\ UNCHANGED <<autorun, state, inbox, procs, updates, updLock, calls>>

\* dbus.rs:341-345
DrainClearDevices ==
    /\ drain.pc = "clear_devices"
    /\ devLock = 0
    /\ devices' = <<>>
    /\ drain' = DrainAt("clear_updates")
    /\ out' = Nothing
    /\ UNCHANGED <<autorun, state, inbox, procs, updates, devLock, updLock,
                   calls>>

\* dbus.rs:346-349
DrainClearUpdates ==
    /\ drain.pc = "clear_updates"
    /\ updLock = 0
    /\ updates' = <<>>
    /\ drain' = DrainAt("recv")
    /\ out' = Nothing
    /\ UNCHANGED <<autorun, state, inbox, procs, devices, devLock, updLock,
                   calls>>

\* Update::from_bundle, dbus.rs:147-154, with rauc_info.version() or 0.0.0
from_bundle(bundle, current_version) ==
    [name |-> bundle.path,
     old_version |-> IF current_version = NoVersion THEN <<0, 0, 0>>
                     ELSE current_version,
     new_version |-> bundle.version,
     force |-> bundle.is_override]

\* dbus.rs:259-276: the read guard of updates, RaucInfo::new and the signal
\* for updates[0].  An error of RaucInfo::new or of the signal ends the state
\* task, and so does the panic of updates[0] on an empty updates.
DrainUpdateFound ==
    /\ drain.pc = "updatefound"
    /\ updLock = 0
    /\ \/ /\ updates # <<>>
          /\ out' = Signal(<< from_bundle(updates[1], SystemVersion) >>)
          /\ drain' = DrainAt(IF state.iteration = 1 /\ autorun
                              THEN "autorun" ELSE "recv")
       \/ /\ out' = Nothing
          /\ drain' = DrainAt("failed")
    /\ UNCHANGED <<autorun, state, inbox, procs, devices, updates, devLock,
                   updLock, calls>>

\* dbus.rs:279-297: with autorun in iteration 1 the state task calls
\* InstallUpdate(true, true) over the bus and awaits the reply
DrainInstallCall ==
    /\ drain.pc = "autorun"
    /\ FreeSlots # {}
    /\ InstallUpdateCalled("drain", TRUE, TRUE)
    /\ drain' = DrainAt(IF InstallDecision(state, TRUE) = "wrong"
                        THEN "failed" ELSE "call")
    /\ UNCHANGED <<autorun, state, inbox, devices, updates, devLock, updLock,
                   calls>>

-----------------------------------------------------------------------------
(* The specification *)

Next ==
    \/ search_for_update
    \/ \E update, reboot \in BOOLEAN : install_update(update, reboot)
    \/ \E p \in Procs : SearchSendMounting(p)
    \/ \E p \in Procs : SearchMount(p)
    \/ \E p \in Procs : SearchSendMounted(p)
    \/ \E p \in Procs : SearchLockUpdates(p)
    \/ \E p \in Procs : SearchSendSearching(p)
    \/ \E p \in Procs : SearchSelect(p)
    \/ \E p \in Procs : InstallGetUpdate(p)
    \/ \E p \in Procs : InstallSendUpdating(p)
    \/ \E p \in Procs : InstallRun(p)
    \/ \E p \in Procs : InstallSendUpdated(p)
    \/ \E p \in Procs : SkipSend(p)
    \/ DrainStart
    \/ DrainRecv
    \/ DrainIncr
    \/ DrainSend
    \/ DrainUnmount
    \/ DrainClearDevices
    \/ DrainClearUpdates
    \/ DrainUpdateFound
    \/ DrainInstallCall

Spec == Init /\ [][Next]_vars

-----------------------------------------------------------------------------
(* The properties of the D-Bus interface, dbus.rs:594-609 *)

\* Caterpillar::updated, dbus.rs:600-603
updated_property == get_updated(state)

\* Caterpillar::marked_for_reboot, dbus.rs:606-609
marked_for_reboot == get_marked_for_reboot(state)

-----------------------------------------------------------------------------
(* Properties *)

\* A method handler or task started in this step
Spawned(kind) == \E p \in Procs : procs[p].kind = "none" /\ procs'[p].kind = kind

\* C1: search_for_update is accepted only when the stored state is Idle with
\* updated=false; in every other state it replies AccessDenied naming the
\* state, spawns no task, posts nothing and leaves state, devices and updates
\* as they are.
C1_SearchGuard ==
    [][search_for_update =>
         IF state.tag = "idle" /\ ~state.updated
         THEN /\ out' = Reply("SearchForUpdate", "Ok", "")
              /\ Spawned("search")
         ELSE /\ out' = Reply("SearchForUpdate", "AccessDenied",
                              "Already in state " \o state.tag)
              /\ procs' = procs
              /\ inbox' = inbox
              /\ state' = state
              /\ devices' = devices
              /\ updates' = updates]_vars

\* A search has been refused in Idle with updated=true
C1_Refused ==
    /\ state.tag = "idle" /\ state.updated
    /\ out = Reply("SearchForUpdate", "AccessDenied", "Already in state idle")

\* C2: install_update(update, reboot) is accepted only for UpdateFound with
\* updated=false and update=true, and for UpdateFound or NoUpdateFound with
\* update=false; every other call gets a wrong-state error, spawns nothing and
\* posts nothing, and the error names the state unless its updated is true,
\* when it says the system is updated already and waiting for reboot.
C2_InstallGuard ==
    [][\A update, reboot \in BOOLEAN :
         install_update(update, reboot) =>
           IF state.tag = "updatefound" /\ ~state.updated /\ update
           THEN Spawned("install")
           ELSE IF state.tag \in {"updatefound", "noupdatefound"} /\ ~update
           THEN Spawned("skip")
           ELSE /\ out'.kind = "reply" /\ out'.result = "Failed"
                /\ out'.text = "Caterpillar is in wrong state: " \o
                     (IF get_updated(state)
                      THEN "System is updated already, waiting for reboot"
                      ELSE state.tag)
                /\ procs' = procs
                /\ inbox' = inbox
                /\ state' = state]_vars

\* An install has been refused because the system is updated already
C2_Refused ==
    /\ get_updated(state)
    /\ out = Reply("InstallUpdate", "Failed",
                   "Caterpillar is in wrong state: System is updated already, waiting for reboot")

\* C3: the updated value of the stored state never goes from true to false.
C3_UpdatedMonotone ==
    [][get_updated(state) => get_updated(state')]_vars

\* C4: the iteration of the stored state never decreases from one committed
\* state to the next.
C4_IterationMonotone ==
    [][get_iteration(state') >= get_iteration(state)]_vars

\* C5: the iteration grows by exactly one each time an Idle message is
\* committed and changes nowhere else, so that the settled Idle state carries
\* the number of times Idle has been entered.
C5_IterationCountsIdle ==
    [][/\ (DrainRecv /\ state'.tag = "idle") => drain'.pc = "incr"
       /\ DrainIncr => /\ state.tag = "idle"
                       /\ get_iteration(state') = get_iteration(state) + 1
       /\ get_iteration(state') # get_iteration(state) => DrainIncr]_vars

\* C6: at most one worker task, search or install, is in flight at any
\* instant.
C6_OneWorkerTask == Cardinality(WorkerTasks) <= 1

\* C7: only the state task assigns the stored state; each value is the oldest
\* message of the inbox, taken one at a time in the order of posting, or the
\* rewrite of Idle(u,i) to Idle(u,i+1); the inbox changes only by a post at its
\* end or by that take.
C7_SingleWriterFifo ==
    [][/\ state' # state =>
            /\ procs' = procs
            /\ \/ /\ drain.pc = "recv" /\ inbox # <<>>
                  /\ state' = Head(inbox)
                  /\ inbox' = Tail(inbox)
               \/ /\ drain.pc = "incr" /\ state.tag = "idle"
                  /\ state' = St2("idle", state.updated, state.iteration + 1)
                  /\ inbox' = inbox
       /\ inbox' # inbox =>
            \/ inbox # <<>> /\ inbox' = Tail(inbox) /\ state' = Head(inbox)
            \/ /\ Len(inbox') = Len(inbox) + 1
               /\ SubSeq(inbox', 1, Len(inbox)) = inbox
               /\ state' = state]_vars

\* Mounted has been committed while Searching, posted after it, waits
C7_CommittedInOrder ==
    /\ state.tag = "mounted"
    /\ Len(inbox) = 1 /\ inbox[1].tag = "searching"

\* C8: MarkedForReboot is true iff the stored state is Unmounting, Unmounted
\* or Updated with reboot=true; it is false for Init and every two-field
\* state.
C8_MarkedForReboot ==
    marked_for_reboot =
        (state.tag \in {"unmounting", "unmounted", "updated"} /\ state.reboot)

\* Updated with reboot=true is the stored state
C8_UpdatedMarked == state.tag = "updated" /\ state.reboot /\ marked_for_reboot

C10_StaysUpdatedIdle ==
    [][(state.tag = "idle" /\ state.updated) =>
         (state'.tag = "idle" /\ state'.updated)]_vars

\* Nothing is left to run: no handler or task, no message in the channel, and
\* the state task polls an empty channel or has returned
Stopped ==
    /\ \A p \in Procs : procs[p].kind = "none"
    /\ inbox = <<>>
    /\ drain.pc \in {"recv", "failed", "exited"}

\* C11: when the selector fails with TooManyOverrides the machine goes through
\* Unmounting and Unmounted back to Idle and the mounted devices are
\* unmounted: it never comes to a stop in Searching with the devices on
\* which the selector fails still in the list.
C11_TooManyOverridesTeardown ==
    ~(/\ Stopped
      /\ state.tag = "searching"
      /\ get_update_bundle(SystemVersion, devices).kind = "err")

\* C12: when the installer reports failure for an accepted install the machine
\* goes back through Unmounting and Unmounted to Idle with updated=false: the
\* failure does not leave it at a stop.
C12_InstallFailureTeardown ==
    out = Logged(UpdateFailedText) => ~Stopped

\* C13: when the installer reports failure, the reply to that install_update
\* call is an error with the installer's text: the call has not been answered
\* with success before.
C13_InstallFailureReply ==
    [][\A p \in Procs :
         (InstallRun(p) /\ out' = Logged(UpdateFailedText)) => ~RepliedOk(p)]_vars

\* C14: every accepted search comes to UpdateFound or NoUpdateFound when the
\* external calls return a value or an error: the machine never comes to a
\* stop in Mounting, Mounted or Searching.
C14_SearchTerminates ==
    Stopped => state.tag \notin {"mounting", "mounted", "searching"}

\* The states of a first cycle that finds no bundle, in the order of commit
NoBundleCycle ==
    << St2("idle", FALSE, 1), St2("mounting", FALSE, 1), St2("mounted", FALSE, 1),
       St2("searching", FALSE, 1), St2("noupdatefound", FALSE, 1),
       St3("unmounting", FALSE, 1, FALSE), St3("unmounted", FALSE, 1, FALSE),
       St2("idle", FALSE, 1), St2("idle", FALSE, 2) >>

\* C15: when the one search of the first cycle finds no bundle, the committed
\* states are Mounting, Mounted, Searching, NoUpdateFound, Unmounting,
\* Unmounted and Idle in that order, the machine does not stop before it is
\* in Idle(false, 2), and reboot is not called.
C15_NoBundleScenario ==
    [][calls' = <<SearchCall>> =>
         /\ \A k \in 2..5 :
              (state' = NoBundleCycle[k] /\ state' # state) => state = NoBundleCycle[k - 1]
         /\ \A k \in 5..7 :
              (state = NoBundleCycle[k] /\ state' # state) => state' = NoBundleCycle[k + 1]
         /\ (state = NoBundleCycle[8] /\ drain.pc = "incr" /\ state' # state) =>
              state' = NoBundleCycle[9]
         /\ ~get_updated(state') => out'.kind # "reboot"
         /\ Stopped' => \A k \in 5..8 : state' # NoBundleCycle[k]]_vars

\* The states of a first cycle with autorun that finds and installs a bundle,
\* in the order of commit
AutorunCycle ==
    << St2("updatefound", FALSE, 1), St2("updating", FALSE, 1),
       St3("updated", FALSE, 1, TRUE), St3("unmounting", TRUE, 1, TRUE),
       St3("unmounted", TRUE, 1, TRUE) >>

\* C16: with autorun, when the one search of the first cycle finds a bundle
\* and the installer succeeds, UpdateFound is followed by Updating, Updated,
\* Unmounting and Unmounted in that order without a call of a client, reboot
\* is called when Unmounted is committed, and the machine does not stop
\* between the installer's success and that call.
C16_AutorunScenario ==
    [][(calls' = <<SearchCall>> /\ autorun) =>
         /\ \A k \in 1..4 :
              (state = AutorunCycle[k] /\ state' # state) => state' = AutorunCycle[k + 1]
         /\ (state' = AutorunCycle[5] /\ state' # state) => out' = RebootCall
         /\ out'.kind = "reboot" => state' = AutorunCycle[5]
         /\ Stopped' => \A k \in 3..4 : state' # AutorunCycle[k]]_vars

\* C17: the state task calls InstallUpdate(true, true) itself only with
\* autorun and only in UpdateFound of iteration 1; without autorun, or in a
\* later cycle, the state stays UpdateFound until a client's install_update
\* moves it on (to Updating or Skip).
C17_SelfInstallOnlyFirstCycle ==
    [][/\ \A p \in Procs :
            (procs[p].kind = "none" /\ procs'[p].caller = "drain") =>
               /\ autorun
               /\ state.tag = "updatefound" /\ state.iteration = 1
               /\ procs'[p].kind = "install" /\ procs'[p].reboot
       /\ (/\ state.tag = "updatefound"
           /\ ~(autorun /\ state.iteration = 1)
           /\ state' # state) => state'.tag \in {"updating", "skip"}]_vars

\* C18: a failed unmount in the Unmounting step is not fatal: every mounted
\* device is still attempted, Unmounted is posted and the state task goes on.
C18_UnmountFailureNotFatal ==
    [][DrainUnmount =>
         /\ drain'.pc = "send" /\ drain'.msg.tag = "unmounted"
         /\ out' = Unmounts(UnmountRequests(devices, 0))]_vars

\* C19: Unmount is called only for a device for which Mount was called when
\* the device list was built; a device found mounted is taken over with
\* unmountable=false, Mount is not called for it, and teardown leaves it as
\* it is.
C19_UnmountOnlyOwnMounts ==
    [][/\ out'.kind = "unmount" =>
            \A i \in 1..Len(out'.paths) :
               \E k \in 1..Len(devices) :
                  /\ devices[k].objectpath = out'.paths[i]
                  /\ devices[k].unmountable = "yes"
       /\ out'.kind = "mount" =>
            \A k \in 1..Len(devices') :
               LET asked == \E i \in 1..Len(out'.paths) :
                               out'.paths[i] = devices'[k].objectpath
               IN  /\ devices'[k].unmountable = "yes" => asked
                   /\ devices'[k].unmountable = "no" =>
                         ~asked /\ is_mounted(devices'[k])
       /\ DrainUnmount =>
            \A k \in 1..Len(devices) :
               devices[k].unmountable = "no" => devices'[k] = devices[k]]_vars

\* Teardown has called Unmount for the device the daemon mounted and has left
\* alone the one it found mounted
C19_ForeignMountKept ==
    /\ out = Unmounts(<<"sdb1">>)
    /\ \E k \in 1..Len(devices) :
          /\ devices[k].objectpath = "sda1"
          /\ devices[k].unmountable = "no" /\ is_mounted(devices[k])

\* C20: when Updated is posted for a bundle from the override directory the
\* bundle has been renamed to its path with the suffix .installed before; a
\* bundle that is not an override is never renamed.
C20_OverrideRenamed ==
    [][/\ \A p \in Procs :
            (procs'[p].pc = "updated" /\ procs[p].pc # "updated") =>
               /\ procs[p].kind = "install" /\ procs[p].pc = "install"
               /\ out' = IF procs[p].bundle.is_override
                         THEN [kind |-> "rename", from |-> procs[p].bundle.path,
                               to |-> procs[p].bundle.path \o ".installed"]
                         ELSE Nothing
       /\ out'.kind = "rename" =>
            \E p \in Procs :
               /\ procs[p].bundle.is_override
               /\ procs[p].pc = "install" /\ procs'[p].pc = "updated"
       /\ (/\ Len(inbox') = Len(inbox) + 1
           /\ inbox'[Len(inbox')].tag = "updated") =>
            \E p \in Procs : procs[p].pc = "updated" /\ procs'[p].kind = "none"]_vars

\* Updated is about to be posted for the override bundle, which has been
\* renamed in the step before
C20_RenamedBeforeUpdated ==
    /\ out = Renamed("override/other.raucb")
    /\ \E p \in Procs : procs[p].pc = "updated" /\ procs[p].bundle.is_override

\* C26: every commit of UpdateFound broadcasts update_found with one record,
\* and the record describes the bundle that an install_update(update=true)
\* accepted in that state installs: name its path, new_version its version,
\* force its override flag, old_version the system version.
C26_SignalDescribesInstall ==
    [][(DrainUpdateFound /\ drain'.pc # "failed") =>
          LET bundle == get_update(updates)
          IN  out' = [kind |-> "signal",
                      update |-> << [name |-> bundle.path,
                                     old_version |-> SystemVersion,
                                     new_version |-> bundle.version,
                                     force |-> bundle.is_override] >>]]_vars

\* C27: whenever the stored state is Idle the devices and the candidate
\* bundles are both empty, and the Unmounted arm leaves both empty in the
\* reboot branch and in the other one.
C27_EmptyInIdle ==
    [][/\ state'.tag = "idle" => (devices' = <<>> /\ updates' = <<>>)
       /\ DrainClearUpdates => (devices' = <<>> /\ updates' = <<>>)]_vars

\* C28: the state task posts Unmounting(u,i,false) for NoUpdateFound(u,i)
\* and Skip(u,i), Unmounting(true,i,r) for Updated(_,i,r) and
\* Unmounted(u,i,r) for Unmounting(u,i,r), and nobody else posts Unmounting
\* or Unmounted; the reboot flag of teardown is true only after an accepted
\* install_update call with reboot=true (a client's, or the state task's own
\* in iteration 1 with autorun).
C28_TeardownPayload ==
    [][/\ DrainSend =>
            /\ state.tag \in {"noupdatefound", "skip"} =>
                 inbox' = Append(inbox, St3("unmounting", state.updated,
                                            state.iteration, FALSE))
            /\ state.tag = "updated" =>
                 inbox' = Append(inbox, St3("unmounting", TRUE,
                                            state.iteration, state.reboot))
            /\ state.tag = "unmounting" =>
                 inbox' = Append(inbox, St3("unmounted", state.updated,
                                            state.iteration, state.reboot))
       /\ (/\ Len(inbox') = Len(inbox) + 1
           /\ inbox'[Len(inbox')].tag \in {"unmounting", "unmounted"}) => DrainSend
       /\ (state'.tag \in {"unmounting", "unmounted"} /\ state'.reboot) =>
            \/ \E k \in 1..Len(calls') : calls'[k] = InstallCall(TRUE, TRUE)
            \/ autorun /\ state'.iteration = 1]_vars

\* Updated(false,i,true) of a client's call is committed and the state task
\* has posted Unmounting(true,i,true) for it
C28_UpdatedForced ==
    /\ ~autorun
    /\ state.tag = "updated" /\ ~state.updated /\ state.reboot
    /\ inbox = << St3("unmounting", TRUE, state.iteration, TRUE) >>

\* One search and one install_update(update=false) have been accepted, and
\* the state task makes no call of its own
SkipScenario ==
    /\ ~autorun
    /\ \E reboot \in BOOLEAN : calls = << SearchCall, InstallCall(FALSE, reboot) >>

\* C29: install_update(update=false) accepted in UpdateFound(u,i) or
\* NoUpdateFound(u,i) spawns no install task and its handler posts one
\* Skip(u,i); in a cycle with this as the only accepted install_update call
\* the installer is not invoked, reboot is not called, updated stays false
\* and the machine does not stop before teardown has led it to Idle.
C29_SkipCycle ==
    [][/\ \A reboot \in BOOLEAN :
            (install_update(FALSE, reboot) /\ calls' # calls) =>
               /\ state.tag \in {"updatefound", "noupdatefound"}
               /\ ~Spawned("install")
               /\ procs'[NewSlot].kind = "skip"
               /\ procs'[NewSlot].updated = state.updated
               /\ procs'[NewSlot].iteration = state.iteration
       /\ \A p \in Procs :
            (procs[p].kind = "skip" /\ procs'[p] # procs[p]) =>
               /\ procs'[p].kind = "none"
               /\ \/ inbox' = Append(inbox, St2("skip", procs[p].updated,
                                                procs[p].iteration))
                  \/ DrainGone /\ inbox' = inbox
       /\ (/\ Len(inbox') = Len(inbox) + 1
           /\ inbox'[Len(inbox')].tag = "skip") =>
            \E p \in Procs : procs[p].kind = "skip" /\ procs'[p].kind = "none"
       /\ SkipScenario' =>
            /\ \A p \in Procs : procs'[p].kind # "install"
            /\ out'.kind # "reboot"
            /\ ~get_updated(state')
            /\ Stopped' => state'.tag \notin {"skip", "unmounting", "unmounted"}]_vars

\* C30: an install task whose installer call or rename fails ends without
\* posting anything and without a change of the stored state; Updated is
\* posted only by a task whose install and rename have succeeded.
C30_FailedInstallPostsNothing ==
    [][/\ \A p \in Procs :
            (InstallRun(p) /\ out'.kind = "log") =>
               /\ procs'[p].kind = "none"
               /\ inbox' = inbox /\ state' = state
       /\ \A p \in Procs :
            (procs'[p].pc = "updated" /\ procs[p].pc # "updated") =>
               out'.kind # "log"
       /\ (/\ Len(inbox') = Len(inbox) + 1
           /\ inbox'[Len(inbox')].tag = "updated") =>
            \E p \in Procs :
               /\ procs[p].kind = "install" /\ procs[p].pc = "updated"
               /\ procs'[p].kind = "none"]_vars

\* The installer has failed after Updating was committed: nothing is posted
\* and no task is left
C30_FailedAfterUpdating ==
    /\ out = Logged(UpdateFailedText)
    /\ state.tag = "updating" /\ ~state.updated
    /\ inbox = <<>>
    /\ \A p \in Procs : procs[p].kind = "none"


\* The updated flag is set somewhere in the daemon: in the stored state, in a
\* message of the inbox, in the message the state task is about to send, or
\* in the payload a handler or task has copied
CarriesUpdated ==
    \/ get_updated(state)
    \/ \E k \in 1..Len(inbox) : get_updated(inbox[k])
    \/ drain.pc = "send" /\ get_updated(drain.msg)
    \/ \E p \in Procs : procs[p].updated

\* C35: logind's Reboot is called only after an install has succeeded: the
\* call is made on committing an Unmounted state whose updated flag is set,
\* the flag is first set anywhere by the commit of an Updated state, an
\* Updated state is posted by an install task only, and that task comes to
\* post it only when the installer has reported success.
C35_RebootAfterInstall ==
    [][ /\ out' = RebootCall
           => /\ DrainRecv
              /\ state'.tag = "unmounted" /\ state'.updated
              /\ CarriesUpdated
        /\ ~CarriesUpdated /\ CarriesUpdated'
           => DrainRecv /\ state'.tag = "updated"
        /\ (/\ Len(inbox') > Len(inbox)
            /\ inbox'[Len(inbox')].tag = "updated")
           => \E p \in Procs : /\ InstallSendUpdated(p)
                                /\ procs[p].kind = "install"
        /\ \A p \in Procs :
              procs'[p].pc = "updated" /\ procs[p].pc # "updated"
              => /\ InstallRun(p)
                 /\ out' \notin {Logged(UpdateFailedText),
                                  Logged(RenameFailedText)} ]_vars

\* Reboot has just been called
C35_Rebooted ==
    /\ out = RebootCall
    /\ state.tag = "unmounted" /\ state.updated


\* The Device holds a mount that the daemon made and has not undone
MountedByUs(d) == is_mounted(d) /\ d.unmountable = "yes"

\* C36: teardown is complete: whenever the machine re-enters Idle or calls
\* logind's Reboot, no device that the daemon itself mounted is still
\* mounted.  The daemon knows its mounts by the Devices it holds, so none of
\* them is mounted by the daemon at these points, and no Device is dropped
\* from the collection while it holds such a mount.
C36_TeardownComplete ==
    [][ /\ (DrainRecv /\ state'.tag = "idle") \/ out' = RebootCall
           => \A k \in 1..Len(devices') : ~MountedByUs(devices'[k])
        /\ \A k \in 1..Len(devices) :
              MountedByUs(devices[k])
              => \/ DrainUnmount
                 \/ /\ k \in 1..Len(devices')
                    /\ devices'[k] = devices[k] ]_vars


\* The task or handler in slot p is suspended in send on the full inbox
BlockedOnInbox(p) ==
    /\ procs[p].pc \in {"mounting", "mounted", "searching", "updating",
                        "updated", "skip"}
    /\ ~CanSend /\ ~DrainGone

\* The state task is suspended in the send of an arm on the full inbox.  It
\* is the only receiver, so the inbox stays full.
DrainBlockedOnInbox == drain.pc = "send" /\ ~CanSend

\* The state task waits for a guard whose holder is suspended on the full
\* inbox, which only the state task empties
DrainBlockedOnLock ==
    \/ /\ drain.pc \in {"unmount", "clear_devices"}
       /\ devLock \in Procs /\ BlockedOnInbox(devLock)
    \/ /\ drain.pc \in {"updatefound", "clear_updates"}
       /\ updLock \in Procs /\ BlockedOnInbox(updLock)

\* C37: no deadlock on the inbox or on the locks of the collections: the
\* state task, the only consumer, never blocks forever on posting its own
\* follow-up state or on acquiring the lock of the devices or of the
\* candidates, so a producer blocked on the full inbox is always unblocked.
C37_NoDeadlock == ~DrainBlockedOnInbox /\ ~DrainBlockedOnLock


\* The tags a search, a skip or an install brings about before Updated
NotUpdatedTags ==
    {"mounting", "mounted", "searching", "updatefound", "noupdatefound",
     "skip", "updating"}

\* C38: in every state whose tag is Mounting, Mounted, Searching,
\* UpdateFound, NoUpdateFound, Skip or Updating the updated payload is false;
\* updated = true appears only in Unmounting, Unmounted and Idle, and only
\* after an Updated state was committed.  This is stated for the stored state and
\* for the states queued in the inbox.
C38_UpdatedOnlyAfterUpdated ==
    /\ [](LET held == {state} \cup {inbox[k] : k \in 1..Len(inbox)}
          IN  \A s \in held :
                 /\ s.tag \in NotUpdatedTags => ~s.updated
                 /\ get_updated(s) => s.tag \in {"unmounting", "unmounted", "idle"})
    /\ [][ ~CarriesUpdated /\ get_updated(state')
           => FALSE ]_vars
    /\ [][ ~CarriesUpdated /\ CarriesUpdated'
           => state'.tag = "updated" /\ state' # state ]_vars

\* The machine is back in Idle with the updated flag set
C38_UpdatedIdle == state.tag = "idle" /\ state.updated


\* C39: the Updated property tells whether the system has been successfully
\* updated: from the moment the state named updated is observable after a
\* successful install the property reads true, and it reads false in every
\* state before any install has succeeded.
C39_UpdatedPropertyTellsInstall ==
    /\ [](state.tag = "updated" => updated_property)
    /\ [][ state.tag = "updated" \/ updated_property => updated_property' ]_vars
    /\ [][ ~CarriesUpdated => ~updated_property' ]_vars


\* C40: the state task leaves its loop only when Done is committed, and
\* neither a method, a task nor an arm of the state task posts Done: the
\* stored state never becomes Done, the done-event is never notified, and
\* Init is never stored again once the first Idle is committed.
C40_ExitsOnlyOnDone ==
    /\ [](DrainGone => state.tag = "done")
    /\ [](/\ state.tag # "done"
          /\ \A k \in 1..Len(inbox) : inbox[k].tag # "done"
          /\ drain.pc # "exited")
    /\ [][ state # StInit => state' # StInit ]_vars

-----------------------------------------------------------------------------
(* The selector on its own: a search task that has reached get_update_bundle *)
(* (dbus.rs:448) with the RaucInfo it has read (dbus.rs:440) and the device  *)
(* list that mount_and_search_devices has left in Caterpillar.devices.       *)

\* Bundle files in one directory listing of a device of the selector's input
MaxListing == 2

\* Devices in the selector's input
MaxDevices == 2

\* RaucInfo::version of the systems the selector is run on
SystemVersions == {NoVersion, SystemVersion, <<2, 0, 0>>}

\* Files with the bundle extension at the top level of a medium
TopLevelFiles ==
    {"update.raucb", "update2.raucb", "update2-copy.raucb", "foreign.raucb",
     "short.raucb", "broken.raucb"}

\* Files with the bundle extension in the override directory of a medium
OverrideFiles ==
    {"override/other.raucb", "override/second.raucb", "override/foreign.raucb",
     "override/short.raucb", "override/broken.raucb"}

\* Directory listings of at most n files
Listings(files, n) ==
    {l \in UNION {[1..k -> files] : k \in 0..n} :
        \A i, j \in 1..Len(l) : i # j => l[i] # l[j]}

\* A mounted and searched device with the given listings
SearchedDevice(objectpath, top, over) ==
    [DeviceNew(objectpath) EXCEPT !.mountpoint = "/run/media/" \o objectpath,
                                  !.unmountable = "yes",
                                  !.bundles = top, !.override_bundles = over]

\* The device lists the selector is run on: one device with listings of up to
\* MaxListing files, or MaxDevices devices with one file less per listing
SelectorDevices ==
    {<< SearchedDevice("sda1", t, o) >> :
        t \in Listings(TopLevelFiles, MaxListing),
        o \in Listings(OverrideFiles, MaxListing)}
    \cup
    {[k \in 1..MaxDevices |-> SearchedDevice(IF k = 1 THEN "sda1" ELSE "sdb1",
                                             l[k][1], l[k][2])] :
        l \in [1..MaxDevices -> Listings(TopLevelFiles, MaxListing - 1)
                                \X Listings(OverrideFiles, MaxListing - 1)]}

\* The search task in front of get_update_bundle
SelectorTask(version) ==
    [kind |-> "search", pc |-> "select", version |-> version,
     found |-> [kind |-> "none"]]

SelectorInit ==
    /\ autorun = FALSE
    /\ state = St2("searching", FALSE, 1)
    /\ inbox = <<>>
    /\ drain = DrainAt("recv")
    /\ \E version \in SystemVersions :
          procs = [p \in Procs |-> IF p = 1 THEN SelectorTask(version) ELSE NoProc]
    /\ devices \in SelectorDevices
    /\ updates = <<>>
    /\ devLock = 0
    /\ updLock = 1
    /\ out = Nothing
    /\ calls = <<SearchCall>>

\* dbus.rs:448-462: the call of get_update_bundle and the push of its bundle
SelectorSelect ==
    /\ procs[1].pc = "select"
    /\ LET found == get_update_bundle(procs[1].version, devices)
       IN  /\ procs' = [procs EXCEPT ![1].pc = "selected", ![1].found = found]
           /\ updates' = IF found.kind = "some"
                         THEN Append(updates, found.bundle) ELSE updates
    /\ UNCHANGED <<autorun, state, inbox, drain, devices, devLock, updLock,
                   out, calls>>

SelectorNext == SelectorSelect

SelectorSpec == SelectorInit /\ [][SelectorNext]_vars

\* The selector has returned
Selected == procs[1].kind = "search" /\ procs[1].pc = "selected"

\* All override paths and all top-level paths of the device list, in order
RECURSIVE PathsFrom(_, _)
PathsFrom(k, override) ==
    IF k > Len(devices) THEN <<>>
    ELSE (IF override THEN devices[k].override_bundles ELSE devices[k].bundles)
         \o PathsFrom(k + 1, override)

OverridePaths == PathsFrom(1, TRUE)
TopLevelPaths == PathsFrom(1, FALSE)

\* The file at this path is a bundle: the installer reports a compatibility
\* tag and a version of the form MAJOR.MINOR.PATCH for it
IsBundle(path) == InstallerInfo(path).ok /\ Len(InstallerInfo(path).version) = 3

\* The top-level bundles with the system's tag that are newer than the system
Newer(version) ==
    {k \in 1..Len(TopLevelPaths) :
        /\ IsBundle(TopLevelPaths[k])
        /\ InstallerInfo(TopLevelPaths[k]).compatible = SystemCompatible
        /\ \/ version = NoVersion
           \/ VersionLess(version, InstallerInfo(TopLevelPaths[k]).version)}

\* C21: without override bundles the selector returns a top-level bundle with
\* the system's compatibility tag and a version above the system's (any
\* version when the system has none) such that no other such bundle has a
\* higher version, and returns no update exactly when there is no such
\* bundle; it never returns a bundle with another compatibility tag.
C21_SelectsNewest ==
    Selected =>
       LET found == procs[1].found
           newer == Newer(procs[1].version)
       IN  /\ found.kind = "some" => found.bundle.compatible = SystemCompatible
           /\ OverridePaths = <<>> =>
                /\ found.kind # "err"
                /\ found.kind = "none" <=> newer = {}
                /\ found.kind = "some" =>
                     \E k \in newer :
                        /\ found.bundle =
                              [path |-> TopLevelPaths[k],
                               compatible |-> SystemCompatible,
                               version |-> InstallerInfo(TopLevelPaths[k]).version,
                               is_override |-> FALSE]
                        /\ \A j \in newer :
                              ~VersionLess(found.bundle.version,
                                           InstallerInfo(TopLevelPaths[j]).version)

\* The newest of two newer bundles has been selected, listed before the other
C21_NewestOfTwo ==
    /\ Selected /\ OverridePaths = <<>>
    /\ TopLevelPaths = <<"update2.raucb", "update.raucb">>
    /\ procs[1].version = NoVersion
    /\ procs[1].found.kind = "some"
    /\ procs[1].found.bundle.path = "update2.raucb"

\* C22: with exactly one override bundle on all devices together, carrying
\* the system's compatibility tag, the selector returns that bundle whatever
\* its version and whatever top-level bundles there are.
C22_SingleOverrideWins ==
    (/\ Selected
     /\ Len(OverridePaths) = 1
     /\ IsBundle(OverridePaths[1])
     /\ InstallerInfo(OverridePaths[1]).compatible = SystemCompatible) =>
        procs[1].found =
           [kind |-> "some",
            bundle |-> [path |-> OverridePaths[1],
                        compatible |-> SystemCompatible,
                        version |-> InstallerInfo(OverridePaths[1]).version,
                        is_override |-> TRUE]]

\* An override older than the system has been selected although a newer
\* top-level bundle is on the media
C22_OlderOverrideSelected ==
    /\ Selected
    /\ OverridePaths = <<"override/other.raucb">>
    /\ \E k \in 1..Len(TopLevelPaths) : TopLevelPaths[k] = "update2.raucb"
    /\ procs[1].version = SystemVersion
    /\ procs[1].found.kind = "some"
    /\ procs[1].found.bundle.path = "override/other.raucb"
    /\ VersionLess(procs[1].found.bundle.version, procs[1].version)

\* C23: with two or more override bundle paths on all devices together the
\* selector fails with TooManyOverrides and selects nothing, whether or not
\* the overrides are compatible or readable and whatever top-level bundles
\* there are.
C23_TooManyOverrides ==
    (Selected /\ Len(OverridePaths) >= 2) =>
        /\ procs[1].found = [kind |-> "err"]
        /\ updates = <<>>

\* The selector has failed on two overrides on two devices, one of them not
\* readable, with a newer top-level bundle on the media
C23_TwoDevicesFail ==
    /\ Selected
    /\ Len(devices) = 2
    /\ OverridePaths = <<"override/other.raucb", "override/broken.raucb">>
    /\ TopLevelPaths = <<"update2.raucb">>
    /\ procs[1].found.kind = "err"


\* The device list with the override directories empty
WithoutOverrides(devs) ==
    [k \in 1..Len(devs) |-> [devs[k] EXCEPT !.override_bundles = <<>>]]

\* C34: when exactly one override bundle exists and it is not selected,
\* because its compatibility tag differs from the system's or because reading
\* its info or its version fails, the selector's result is its result for the
\* same devices without any override bundle.
C34_UnselectedOverrideIgnored ==
    (/\ Selected
     /\ Len(OverridePaths) = 1
     /\ \/ ~IsBundle(OverridePaths[1])
        \/ InstallerInfo(OverridePaths[1]).compatible # SystemCompatible) =>
        procs[1].found =
           get_update_bundle(procs[1].version, WithoutOverrides(devices))

\* An override with another tag was passed over and the newer top-level
\* bundle selected
C34_ForeignOverridePassedOver ==
    /\ Selected
    /\ OverridePaths = <<"override/foreign.raucb">>
    /\ TopLevelPaths = <<"update.raucb", "update2.raucb">>
    /\ procs[1].version = SystemVersion
    /\ procs[1].found.kind = "some"
    /\ procs[1].found.bundle.path = "update2.raucb"
    /\ ~procs[1].found.bundle.is_override

-----------------------------------------------------------------------------
(* The order of bundles on its own: the search task in front of             *)
(* bundles.sort() (dbus.rs:755) with a list of bundles to compare.          *)

\* Bundles compared with each other
MaxCompared == 3

\* Ord for str on the compatible strings of the model
StrCmp(a, b) ==
    IF a = b THEN "Equal" ELSE IF StrLess(a, b) THEN "Less" ELSE "Greater"

\* Ord for semver::Version
VersionCmp(a, b) ==
    IF VersionLess(a, b) THEN "Less"
    ELSE IF VersionLess(b, a) THEN "Greater" ELSE "Equal"

\* impl Ord for UpdateBundle, rauc.rs:123-131
cmp(a, b) ==
    LET c == StrCmp(a.compatible, b.compatible)
    IN  IF c = "Equal" THEN VersionCmp(a.version, b.version) ELSE c

\* derive(PartialEq, Eq) of UpdateBundle, rauc.rs:22: all four fields
eq(a, b) ==
    /\ a.path = b.path /\ a.compatible = b.compatible
    /\ a.version = b.version /\ a.is_override = b.is_override

\* The bundles that UpdateBundle::new builds from the files of the media
MediaBundles ==
    {UpdateBundleNew(p, FALSE).bundle : p \in {f \in TopLevelFiles : IsBundle(f)}}
    \cup
    {UpdateBundleNew(p, TRUE).bundle : p \in {f \in OverrideFiles : IsBundle(f)}}

\* The search task in front of the sort
OrderTask(bundles) ==
    [kind |-> "search", pc |-> "sort", bundles |-> bundles,
     ord |-> <<>>, same |-> <<>>]

OrderInit ==
    /\ autorun = FALSE
    /\ state = St2("searching", FALSE, 1)
    /\ inbox = <<>>
    /\ drain = DrainAt("recv")
    /\ \E bundles \in [1..MaxCompared -> MediaBundles] :
          procs = [p \in Procs |-> IF p = 1 THEN OrderTask(bundles) ELSE NoProc]
    /\ devices = <<>>
    /\ updates = <<>>
    /\ devLock = 0
    /\ updLock = 1
    /\ out = Nothing
    /\ calls = <<SearchCall>>

\* The comparisons a sort can make between the bundles of the list
OrderCompare ==
    /\ procs[1].pc = "sort"
    /\ LET bundles == procs[1].bundles
       IN  procs' = [procs EXCEPT
              ![1].pc = "sorted",
              ![1].ord = [i \in 1..Len(bundles) |->
                            [j \in 1..Len(bundles) |-> cmp(bundles[i], bundles[j])]],
              ![1].same = [i \in 1..Len(bundles) |->
                            [j \in 1..Len(bundles) |-> eq(bundles[i], bundles[j])]]]
    /\ UNCHANGED <<autorun, state, inbox, drain, devices, updates, devLock,
                   updLock, out, calls>>

OrderNext == OrderCompare

OrderSpec == OrderInit /\ [][OrderNext]_vars

\* C24: the order of bundles is a total order that agrees with (compatibility
\* tag ascending, then version ascending): it is total, transitive, and
\* antisymmetric with respect to the equality of bundles on path,
\* compatibility tag, version and override flag.
C24_TotalOrder ==
    (procs[1].kind = "search" /\ procs[1].pc = "sorted") =>
       LET b == procs[1].bundles
           Le(i, j) == procs[1].ord[i][j] \in {"Less", "Equal"}
       IN  \A i, j, k \in 1..Len(b) :
              /\ Le(i, j) \/ Le(j, i)
              /\ (Le(i, j) /\ Le(j, k)) => Le(i, k)
              /\ (Le(i, j) /\ Le(j, i)) => procs[1].same[i][j]
              /\ procs[1].ord[i][j] = "Less" <=>
                    \/ StrLess(b[i].compatible, b[j].compatible)
                    \/ /\ b[i].compatible = b[j].compatible
                       /\ VersionLess(b[i].version, b[j].version)

-----------------------------------------------------------------------------
(* UpdateBundle::install on its own (rauc.rs:73-98): the install task at    *)
(* the call, with the Completed signals RAUC will emit and the text of its  *)
(* LastError property.                                                      *)

\* Completed signals that arrive after InstallBundle
MaxSignals == 3

\* The signals of the stream: one whose arguments do not deserialize, or one
\* with a result
CompletedSignals ==
    {[parses |-> FALSE, result |-> 0]}
    \cup {[parses |-> TRUE, result |-> r] : r \in {-1, 0, 1, 2}}

\* Values of RAUC's LastError property
LastErrors == {"rauc last error", "error"}

\* An installation that fails on every result other than zero
RECURSIVE install_nonzero(_, _)
install_nonzero(completed, last_error) ==
    IF completed = <<>> THEN [ok |-> TRUE, err |-> "", text |-> ""]
    ELSE IF Head(completed).parses
         THEN IF Head(completed).result # 0
              THEN [ok |-> FALSE, err |-> "UpdateFailed", text |-> last_error]
              ELSE [ok |-> TRUE, err |-> "", text |-> ""]
         ELSE install_nonzero(Tail(completed), last_error)

\* UpdateBundle::install, rauc.rs:73-98: the loop takes signals until the
\* arguments of one deserialize, sets failed when its result is positive and
\* breaks; a stream that ends leaves failed unset
RECURSIVE install(_, _)
install(completed, last_error) ==
    IF completed = <<>> THEN [ok |-> TRUE, err |-> "", text |-> ""]
    ELSE IF Head(completed).parses
         THEN IF Head(completed).result > 0
              THEN [ok |-> FALSE, err |-> "UpdateFailed", text |-> last_error]
              ELSE [ok |-> TRUE, err |-> "", text |-> ""]
         ELSE install(Tail(completed), last_error)

\* The install task in front of bundle.install (dbus.rs:508-511)
InstallerTask(completed, last_error) ==
    [kind |-> "install", pc |-> "install", completed |-> completed,
     last_error |-> last_error, result |-> [ok |-> TRUE, err |-> "", text |-> ""]]

InstallerInit ==
    /\ autorun = FALSE
    /\ state = St2("updating", FALSE, 1)
    /\ inbox = <<>>
    /\ drain = DrainAt("recv")
    /\ \E completed \in UNION {[1..n -> CompletedSignals] : n \in 0..MaxSignals},
          last_error \in LastErrors :
          procs = [p \in Procs |-> IF p = 1 THEN InstallerTask(completed, last_error)
                                   ELSE NoProc]
    /\ devices = <<>>
    /\ updates = <<>>
    /\ devLock = 0
    /\ updLock = 0
    /\ out = Nothing
    /\ calls = <<SearchCall>>

\* bundle.install(&connection).await
InstallerInstall ==
    /\ procs[1].pc = "install"
    /\ procs' = [procs EXCEPT
          ![1].pc = "installed",
          ![1].result = install(procs[1].completed, procs[1].last_error)]
    /\ UNCHANGED <<autorun, state, inbox, drain, devices, updates, devLock,
                   updLock, out, calls>>

InstallerNext == InstallerInstall

InstallerSpec == InstallerInit /\ [][InstallerNext]_vars

\* install has returned
Installed == procs[1].kind = "install" /\ procs[1].pc = "installed"

\* Positions of the Completed signals that carry a result
WithResult == {k \in 1..Len(procs[1].completed) : procs[1].completed[k].parses}

\* C25: install returns UpdateFailed with the installer's last_error text when
\* the first completion signal has a positive result and returns success when
\* that result is zero or negative, whatever the later signals are.
C25_FirstSignalDecides ==
    (Installed /\ WithResult # {}) =>
       LET first == CHOOSE k \in WithResult : \A j \in WithResult : k <= j
       IN  IF procs[1].completed[first].result >= 1
           THEN procs[1].result =
                   [ok |-> FALSE, err |-> "UpdateFailed", text |-> procs[1].last_error]
           ELSE procs[1].result.ok

\* install has returned success on a negative first result although a later
\* signal has a positive one
C25_NegativeThenPositive ==
    /\ Installed
    /\ Len(procs[1].completed) = 2
    /\ procs[1].completed[1] = [parses |-> TRUE, result |-> -1]
    /\ procs[1].completed[2] = [parses |-> TRUE, result |-> 2]
    /\ procs[1].result.ok

(***************************************************************************)
(* Device::mount_filesystem on its own, device.rs                          *)
(***************************************************************************)

\* Calls of mount_filesystem on one Device
MaxAttempts == 2

\* What udisks can report for the block device: its usage, its partition
\* number, whether its type is a known Filesystem, where it is mounted and
\* whether Mount succeeds
DeviceEnvs ==
    { EnvDevice("sda1", usage, number, ptype_ok, mountpoints, mount_ok,
                <<>>, <<>>) :
        usage \in {"filesystem", "crypto", ""}, number \in {0, 1},
        ptype_ok \in BOOLEAN, mountpoints \in {<<>>, <<"/mnt/sda1">>},
        mount_ok \in BOOLEAN }

MountResult(result, device, asked) ==
    [result |-> result, device |-> device, asked |-> asked]

\* A mount that looks at the partition number before the usage
mount_filesystem_number_first(d, e) ==
    IF e.number = 0 THEN MountResult("IsBaseDevice", d, FALSE)
    ELSE IF e.usage # "filesystem"
         THEN MountResult("IncompatibleBlockDevice", d, FALSE)
    ELSE IF ~e.ptype_ok THEN MountResult("IncompatibleFilesystem", d, FALSE)
    ELSE MountResult("Ok", d, FALSE)

\* Device::mount_filesystem, device.rs:164-231: the result, the Device after
\* the call and whether udisks' Mount was called. OnceCell::set on a cell
\* that holds a value returns Err, and unmountable.set(..).unwrap() panics
\* on it.
mount_filesystem(d, e) ==
    IF e.usage # "filesystem"
    THEN MountResult("IncompatibleBlockDevice", d, FALSE)
    ELSE IF e.number = 0 THEN MountResult("IsBaseDevice", d, FALSE)
    ELSE IF ~e.ptype_ok THEN MountResult("IncompatibleFilesystem", d, FALSE)
    ELSE LET asked == e.mountpoints = <<>>
             path  == IF asked THEN "/run/media/" \o e.objectpath
                      ELSE e.mountpoints[1]
         IN  IF asked /\ ~e.mount_ok THEN MountResult("Dbus", d, TRUE)
             ELSE IF d.unmountable # "unset"
                  THEN MountResult("panic", d, asked)
             ELSE LET flagged ==
                        [d EXCEPT !.unmountable = IF asked THEN "yes" ELSE "no"]
                  IN  IF is_mounted(d)
                      THEN MountResult("AlreadyMounted", flagged, asked)
                      ELSE MountResult("Ok", [flagged EXCEPT !.mountpoint = path],
                                       asked)

\* The caller of mount_filesystem and of the teardown: what udisks reports,
\* the result of the last call and the number of mount attempts
DeviceTask(e) ==
    [kind |-> "device", pc |-> "ready", env |-> e, result |-> "none",
     attempts |-> 0]

DeviceInit ==
    /\ autorun = FALSE
    /\ state = St2("idle", FALSE, 1)
    /\ inbox = <<>>
    /\ drain = DrainAt("recv")
    /\ \E e \in DeviceEnvs :
          /\ procs = [p \in Procs |-> IF p = 1 THEN DeviceTask(e) ELSE NoProc]
          /\ devices = << DeviceNew(e.objectpath) >>
    /\ updates = <<>>
    /\ devLock = 0
    /\ updLock = 0
    /\ out = Nothing
    /\ calls = << SearchCall >>

\* One call of mount_filesystem; a Mount that udisks performed shows in its
\* mountpoints from then on
DeviceMount ==
    /\ procs[1].pc = "ready"
    /\ procs[1].attempts < MaxAttempts
    /\ LET e == procs[1].env
           r == mount_filesystem(devices[1], e)
       IN  /\ devices' = << r.device >>
           /\ out' = Mounts(IF r.asked THEN << e.objectpath >> ELSE <<>>)
           /\ procs' = [procs EXCEPT
                 ![1].pc = IF r.result = "panic" THEN "panicked" ELSE "ready",
                 ![1].result = r.result,
                 ![1].attempts = @ + 1,
                 ![1].env = IF r.asked /\ e.mount_ok
                            THEN [e EXCEPT !.mountpoints =
                                     << "/run/media/" \o e.objectpath >>]
                            ELSE e]
    /\ UNCHANGED <<autorun, state, inbox, drain, updates, devLock, updLock,
                   calls>>

\* The teardown of dbus.rs:319-323 for the Device: unmount_filesystem when it
\* is mounted, with udisks' Unmount succeeding or failing
DeviceUnmount ==
    /\ procs[1].pc = "ready"
    /\ procs[1].result \notin {"none", "Unmounted", "UnmountFailed"}
    /\ \E unmount_ok \in BOOLEAN :
          LET d     == devices[1]
              asked == AsksUnmount(d)
          IN  /\ ~asked => unmount_ok
              /\ devices' = IF is_mounted(d) /\ unmount_ok
                            THEN << unmount_filesystem(d) >> ELSE devices
              /\ out' = Unmounts(UnmountRequests(devices, 0))
              /\ procs' = [procs EXCEPT
                    ![1].result = IF unmount_ok THEN "Unmounted"
                                  ELSE "UnmountFailed",
                    ![1].env = IF asked /\ unmount_ok
                               THEN [@ EXCEPT !.mountpoints = <<>>] ELSE @]
    /\ UNCHANGED <<autorun, state, inbox, drain, updates, devLock, updLock,
                   calls>>

DeviceNext == DeviceMount \/ DeviceUnmount

DeviceSpec == DeviceInit /\ [][DeviceNext]_vars

\* The rejection the partition's properties call for, "none" when the mount
\* goes ahead
Rejection(e) ==
    IF e.usage # "filesystem" THEN "IncompatibleBlockDevice"
    ELSE IF e.number = 0 THEN "IsBaseDevice"
    ELSE IF ~e.ptype_ok THEN "IncompatibleFilesystem"
    ELSE "none"

Rejections == {"IncompatibleBlockDevice", "IsBaseDevice", "IncompatibleFilesystem"}

\* C31: a mount is rejected with IncompatibleBlockDevice when the usage is not
\* filesystem, else with IsBaseDevice when the partition number is 0, else
\* with IncompatibleFilesystem when the partition type is not a known one; a
\* rejected mount calls no Mount and leaves the Device without mountpoint and
\* without the mounted-by-us flag, and the teardown that follows calls no
\* Unmount for it.
C31_RejectedMount ==
    [][ /\ DeviceMount /\ Rejection(procs[1].env) # "none"
           => /\ procs'[1].result = Rejection(procs[1].env)
              /\ out' = Mounts(<<>>)
              /\ devices'[1].mountpoint = ""
              /\ devices'[1].unmountable = "unset"
        /\ DeviceMount /\ Rejection(procs[1].env) = "none"
           => procs'[1].result \notin Rejections
        /\ DeviceUnmount /\ procs[1].result \in Rejections
           => /\ out' = Unmounts(<<>>)
              /\ devices' = devices ]_vars

\* A base device with usage filesystem was rejected and the teardown has
\* passed over it
C31_BaseDeviceSkipped ==
    /\ procs[1].kind = "device"
    /\ procs[1].env.usage = "filesystem" /\ procs[1].env.number = 0
    /\ procs[1].attempts = 1
    /\ procs[1].result = "Unmounted"
    /\ out = Unmounts(<<>>)
    /\ devices = << DeviceNew("sda1") >>

\* C32: a second mount attempt on a Device that holds a mountpoint returns
\* AlreadyMounted, leaves the mountpoint and the mounted-by-us flag as they
\* were and does not abort the task.
C32_SecondMountAlreadyMounted ==
    [][ DeviceMount /\ is_mounted(devices[1])
        => /\ procs'[1].result = "AlreadyMounted"
           /\ devices' = devices
           /\ procs'[1].pc # "panicked" ]_vars

(***************************************************************************)
(* A search over devices that fail, dbus.rs:418-474 and 653-682            *)
(***************************************************************************)

\* What can go wrong with one device: its usage, its partition number, its
\* partition type, udisks' Mount, read_dir of the mountpoint, read_dir of
\* the override directory
DeviceFaults ==
    {"none", "usage", "base", "type", "mount", "scan", "scan_override"}

\* A block device with the given fault and files
FaultyDevice(objectpath, fault, top, over) ==
    [fault |-> fault,
     env |-> EnvDevice(objectpath,
                       IF fault = "usage" THEN "crypto" ELSE "filesystem",
                       IF fault = "base" THEN 0 ELSE 1,
                       fault # "type", <<>>, fault # "mount", top, over),
     top_ok |-> fault # "scan",
     over_ok |-> fault # "scan_override"]

\* Two devices, each with any of the faults
FaultyMedia ==
    { << FaultyDevice("sda1", f1, <<"update2.raucb">>, <<>>),
         FaultyDevice("sdb1", f2, <<"update.raucb">>,
                      <<"override/other.raucb">>) >> :
        f1 \in DeviceFaults, f2 \in DeviceFaults }

\* Device::find_bundles, device.rs:271-300: an error of read_dir, or of a
\* Device without mountpoint, leaves the bundles as they are
find_bundles(d, f) ==
    IF is_mounted(d) /\ f.top_ok
    THEN [ok |-> TRUE, device |-> [d EXCEPT !.bundles = @ \o f.env.top]]
    ELSE [ok |-> FALSE, device |-> d]

\* Device::find_override_bundles, device.rs:303-346
find_override_bundles(d, f) ==
    IF is_mounted(d) /\ f.over_ok
    THEN [ok |-> TRUE,
          device |-> [d EXCEPT !.override_bundles = @ \o f.env.over]]
    ELSE [ok |-> FALSE, device |-> d]

\* The body of the loop of mount_and_search_devices, dbus.rs:662-680
SearchDevice(f) ==
    LET r == mount_filesystem(DeviceNew(f.env.objectpath), f.env)
    IN  IF r.result = "Ok"
        THEN find_override_bundles(find_bundles(r.device, f).device, f).device
        ELSE r.device

\* A loop that gives up at the first device with an error
SearchDevicesUntilError(media) ==
    [k \in 1..Len(media) |->
        IF \E j \in 1..k : media[j].fault # "none"
        THEN DeviceNew(media[k].env.objectpath)
        ELSE SearchDevice(media[k])]

\* mount_and_search_devices, dbus.rs:653-682, over devices that fail
SearchDevices(media) == [k \in 1..Len(media) |-> SearchDevice(media[k])]

\* The task SearchForUpdate has spawned in Idle, with the media it will meet
DiscoveryTask ==
    [kind |-> "search", pc |-> "mounting", updated |-> FALSE, iteration |-> 1,
     reboot |-> FALSE, caller |-> "client", bundle |-> NoBundle,
     media |-> <<>>]

DiscoveryInit ==
    /\ autorun = FALSE
    /\ state = St2("idle", FALSE, 1)
    /\ inbox = <<>>
    /\ drain = DrainAt("recv")
    /\ procs = [p \in Procs |-> IF p = 1 THEN DiscoveryTask ELSE NoProc]
    /\ devices = <<>>
    /\ updates = <<>>
    /\ devLock = 0
    /\ updLock = 0
    /\ out = Nothing
    /\ calls = << SearchCall >>

\* dbus.rs:423-432 over FaultyMedia: the errors of the devices are printed
\* and the task goes on; an error of GetBlockDevices ends it
DiscoveryMount(p) ==
    /\ procs[p].kind = "search" /\ procs[p].pc = "lockdev"
    /\ devLock = 0
    /\ \/ /\ \E media \in FaultyMedia :
                /\ devices' = SearchDevices(media)
                /\ out' = Mounts(MountRequests(
                              [k \in 1..Len(media) |-> media[k].env]))
                /\ procs' = [procs EXCEPT ![p].pc = "mounted",
                                          ![p].media = media]
          /\ devLock' = p
          /\ updLock' = updLock
       \/ /\ devices' = devices
          /\ out' = Nothing
          /\ EndProc(p)
    /\ UNCHANGED <<autorun, state, inbox, drain, updates, calls>>

DiscoveryNext ==
    \/ \E p \in Procs : SearchSendMounting(p)
    \/ \E p \in Procs : DiscoveryMount(p)
    \/ \E p \in Procs : SearchSendMounted(p)
    \/ \E p \in Procs : SearchLockUpdates(p)
    \/ \E p \in Procs : SearchSendSearching(p)
    \/ \E p \in Procs : SearchSelect(p)
    \/ DrainRecv
    \/ DrainIncr
    \/ DrainSend
    \/ DrainUnmount
    \/ DrainClearDevices
    \/ DrainClearUpdates
    \/ DrainUpdateFound

DiscoverySpec == DiscoveryInit /\ [][DiscoveryNext]_vars

\* What a device contributes when only its own fault counts
Contribution(f) ==
    IF f.fault \in {"usage", "base", "type", "mount"}
    THEN DeviceNew(f.env.objectpath)
    ELSE SearchedDevice(f.env.objectpath,
                        IF f.fault = "scan" THEN <<>> ELSE f.env.top,
                        IF f.fault = "scan_override" THEN <<>> ELSE f.env.over)

\* C33: during a search an error while mounting or scanning one device is
\* printed and skipped: every other device is still mounted and scanned, the
\* bundles found on them are the candidates of the selection, and the task
\* goes on to post Mounted and Searching.
C33_DeviceErrorSkipped ==
    [][ \A p \in Procs :
        /\ DiscoveryMount(p) /\ procs'[p].kind = "search"
           => /\ procs'[p].pc = "mounted"
              /\ Len(devices') = Len(procs'[p].media)
              /\ \A k \in 1..Len(devices') :
                    devices'[k] = Contribution(procs'[p].media[k])
        /\ SearchSendMounted(p) /\ ~DrainGone
           => /\ inbox' = Append(inbox, St2("mounted", FALSE, 1))
              /\ procs'[p].pc = "lockupd"
        /\ SearchSendSearching(p) /\ ~DrainGone
           => /\ inbox' = Append(inbox, St2("searching", FALSE, 1))
              /\ procs'[p].pc = "select"
        /\ SearchSelect(p)
           => LET found == get_update_bundle(SystemVersion,
                              [k \in 1..Len(procs[p].media) |->
                                  Contribution(procs[p].media[k])])
              IN  /\ found.kind = "some" => updates' = << found.bundle >>
                  /\ found.kind # "some" => updates' = <<>> ]_vars

\* Mount failed for the first device and the override bundle of the second
\* one was found
C33_SecondDeviceFound ==
    /\ state.tag = "updatefound"
    /\ Len(devices) = 2
    /\ ~is_mounted(devices[1])
    /\ is_mounted(devices[2])
    /\ Len(updates) = 1
    /\ updates[1].path = "override/other.raucb"

=============================================================================
